---- MODULE Spec2Model ----
(***************************************************************************)
(* Model of src/azure_api.py: the AzureAPI client.                         *)
(*                                                                         *)
(* Python strings are modelled as sequences of pieces, so that the empty   *)
(* string is <<>>, "not s" is s = <<>> and an f-string is a concatenation. *)
(* An optional value (None or a value) is a sequence of length 0 or 1.     *)
(* One behaviour is one client instance serving top-level calls one after  *)
(* the other.                                                              *)
(***************************************************************************)
EXTENDS Integers, Sequences, FiniteSets, TLC

\* ---- bounds of the model ----
MaxRetries == 3
MaxBuilds == 3
MaxRepos == 2

\* ---- program constants ----
top_n_builds_to_check == 300

VARIABLES
  retries,               \* self.retries
  base_params,           \* self.base_params
  overrode,              \* an earlier call overrode the api-version
  service,               \* what the remote service currently holds
  top,                   \* the public method the caller invoked
  args,                  \* its arguments
  pc,                    \* position of the running method
  result,                \* how the top-level call ended
  repo_id, branch, build_version_prefix, top_builds, idx,   \* resolver locals
  running,               \* control is inside __run_request
  req,                   \* request_type, url and params of the running request
  retry,                 \* local `retry` of __run_request
  sleeps,                \* time.sleep durations of the running request
  attempts,              \* request_type(...) invocations of the running request
  last,                  \* status of the last response of the running request
                         \* (NoResponse before any, 0 for a transport exception)
  ret,                   \* value __run_request returned
  netlog,                \* requests handed to __run_request by this call
  dl_retry,              \* local `retry` of download_artifact
  dl_res,                \* status of local `res` of download_artifact
                         \* (NoResponse while res is None)
  repos_with_branch_name, \* local list of get_repos_contains_branch
  ri                     \* position of its loop in relevant_repos

dlv == <<dl_retry, dl_res, repos_with_branch_name, ri>>
cfg == <<retries, service, base_params, overrode, dlv>>
ctl == <<top, args, pc, result>>
locals == <<repo_id, branch, build_version_prefix, top_builds, idx>>
execv == <<running, req, retry, sleeps, attempts, last, ret, netlog>>
vars == <<cfg, ctl, locals, execv>>

None == <<>>
Some(v) == <<v>>
Min(a, b) == IF a < b THEN a ELSE b
\* {**a, **b}: the entries of b win
Merge(a, b) == [key \in (DOMAIN a) \cup (DOMAIN b) |->
                  IF key \in DOMAIN b THEN b[key] ELSE a[key]]

\* ---- strings used as inputs ----
EmptyStr == <<>>
Master == <<"master">>
Feature == <<"feature/x">>
Branches == {EmptyStr, Master, Feature}
ArtifactNames == {EmptyStr, <<"X">>}
RepoNames == {EmptyStr, <<"repo">>}
Prefixes == {<<"*">>, <<"1.">>}

\* ---- the remote service ----
RepoId == <<"guid">>
BuildNumbers ==
  << <<"1", ".", "2", "-", "a">>,
     <<"7">>,
     <<"3", "-", "b", "-", "c">>,
     <<"-", "d">>,
     <<"4", ".", "0", "-", "e">> >>
BuildId(i) == <<"build", i>>
BuildOf(i) == [id |-> BuildId(i),
               buildNumber |-> BuildNumbers[((i - 1) % Len(BuildNumbers)) + 1]]
Url(i) == <<"https://artifact/", i>>
Repos == { <<"r1">>, <<"r2">> }
\* refs[r]: repository r is "absent", or exists and "has" the branch
\* Feature or has "none" of that name; every repository has Master.
DefaultRefs == [r \in Repos |-> "has"]
DefaultService == [repoExists |-> TRUE, pr |-> <<>>, n |-> 0, arts |-> {},
                   refs |-> DefaultRefs]
\* The service as the resolver sees it, and the service as the branch
\* lookups see it.
Services ==
  { s \in [repoExists : BOOLEAN, pr : {<<>>, <<"42">>},
           n : 0..MaxBuilds, arts : SUBSET (1..MaxBuilds),
           refs : {DefaultRefs}] :
      s.arts \subseteq 1..s.n }
  \cup { [DefaultService EXCEPT !.refs = f] :
            f \in [Repos -> {"absent", "none", "has"}] }
\* A call is explored in the service states that differ from the default
\* one only in the fields its answers can depend on.
Reads(fields) ==
  \A f \in (DOMAIN service) \ fields : service[f] = DefaultService[f]
HasBranch(r, branch_name) ==
  /\ service.refs[r] # "absent"
  /\ (branch_name = Master \/ (branch_name = Feature /\ service.refs[r] = "has"))

OK == 200
CREATED == 201
INTERNAL_SERVER_ERROR == 500
NotFound == [status |-> 404, body |-> <<>>]

\* The answer the service gives to a request when it answers definitively.
Definitive(r) ==
  CASE r.kind = "repo" ->
         IF service.repoExists
           THEN [status |-> OK, body |-> [id |-> RepoId]]
           ELSE NotFound
    [] r.kind = "pr" ->
         [status |-> OK,
          body |-> [value |-> IF service.pr = <<>> THEN <<>>
                              ELSE << [pullRequestId |-> service.pr] >>]]
    [] r.kind = "builds" ->
         [status |-> OK,
          body |-> [value |-> [i \in 1..Min(service.n, r.params.top) |-> BuildOf(i)]]]
    [] r.kind = "artifact" ->
         IF \E i \in service.arts : r.build = BuildId(i)
           THEN [status |-> OK,
                 body |-> [resource |-> [downloadUrl |->
                             Url(CHOOSE i \in service.arts : r.build = BuildId(i))]]]
           ELSE NotFound
    [] r.kind = "branch" ->
         IF service.refs[r.repo] = "absent" THEN NotFound
         ELSE [status |-> OK,
               body |-> [count |-> IF \E b \in {Master, Feature} :
                                        /\ r.params.filter = <<"heads/">> \o b
                                        /\ HasBranch(r.repo, b)
                                   THEN 1 ELSE 0]]
    [] r.method # "get" -> [status |-> CREATED, body |-> [content |-> r.kind]]
    [] OTHER -> [status |-> OK, body |-> [content |-> r.kind]]

\* What one request_type(**request_args) invocation can produce: the
\* definitive answer, a server error, or a transport-level exception; a
\* write can also be refused with a client error.
Rejected == [status |-> 400, body |-> <<"error body">>]
Responses(r) ==
  { Definitive(r),
    [status |-> INTERNAL_SERVER_ERROR, body |-> <<>>],
    [status |-> 0, body |-> <<>>] }
  \cup (IF r.method # "get" THEN {Rejected} ELSE {})
IsTransport(resp) == resp.status = 0
NoResponse == -1

\* ---- str.split(sep) ----
RECURSIVE SplitFrom(_, _, _)
SplitFrom(s, sep, cur) ==
  IF s = <<>> THEN <<cur>>
  ELSE IF Head(s) = sep THEN <<cur>> \o SplitFrom(Tail(s), sep, <<>>)
  ELSE SplitFrom(Tail(s), sep, Append(cur, Head(s)))
\* Variant: only the last separator splits.
split_at_last(s, sep) ==
  IF \A i \in 1..Len(s) : s[i] # sep THEN <<s>>
  ELSE LET i == CHOOSE j \in 1..Len(s) :
                  s[j] = sep /\ \A m \in (j + 1)..Len(s) : s[m] # sep
       IN << SubSeq(s, 1, i - 1), SubSeq(s, i + 1, Len(s)) >>

split(s, sep) == SplitFrom(s, sep, <<>>)

\* ---- outcomes of the top-level call ----
Raise(e) ==
  /\ result' = [kind |-> "raise", err |-> e, val |-> <<>>]
  /\ pc' = "done"
  /\ UNCHANGED execv
Return(v) ==
  /\ result' = [kind |-> "return", err |-> "", val |-> v]
  /\ pc' = "done"
  /\ UNCHANGED execv

\* ---- __run_request ----
\* Entry: request_args are built and retry = 0.
__run_request(r, k) ==
  /\ req' = [r EXCEPT !.params = Merge(base_params, r.params)]
  /\ retry' = 0
  /\ sleeps' = <<>>
  /\ attempts' = 0
  /\ last' = NoResponse
  /\ ret' = None
  /\ running' = TRUE
  /\ netlog' = Append(netlog, [req |-> [r EXCEPT !.params = Merge(base_params, r.params)],
                               outcome |-> "pending"])
  /\ pc' = k
  /\ UNCHANGED result

_run_get_request(r, k) == __run_request([r EXCEPT !.method = "get"], k)
_run_post_request(r, k) == __run_request([r EXCEPT !.method = "post"], k)
_run_patch_request(r, k) == __run_request([r EXCEPT !.method = "patch"], k)

SetOutcome(o) == netlog' = [netlog EXCEPT ![Len(netlog)].outcome = o]

\* Variant: the exponent is the attempt number itself.
Backoff_from_attempt(n) == 2 ^ n

Backoff(n) == 2 ^ (n + 1)

\* Variant: every status from 400 up is taken for a server error.
Classify_client_errors_retried(resp) ==
  IF IsTransport(resp) THEN "exception"
  ELSE IF resp.status = OK \/ resp.status = CREATED THEN "success"
  ELSE IF resp.status >= 400 THEN "server_error"
  ELSE "non_ok"

\* Lines 204-214: how one response is classified.
Classify(resp) ==
  IF IsTransport(resp) THEN "exception"
  ELSE IF resp.status = OK \/ resp.status = CREATED THEN "success"
  ELSE IF resp.status >= INTERNAL_SERVER_ERROR THEN "server_error"
  ELSE "non_ok"

\* Variant: the loop runs while retry <= self.retries.
while_condition_inclusive == retry <= retries

\* Line 200: the loop condition.
while_condition == retry < retries

\* One iteration of `while retry < self.retries`.
run_request_attempt ==
  /\ running
  /\ while_condition
  /\ \E resp \in Responses(req) :
       /\ attempts' = attempts + 1
       /\ last' = resp.status
       /\ CASE Classify(resp) = "success" ->
                 /\ ret' = Some(resp.body)
                 /\ running' = FALSE
                 /\ SetOutcome("payload")
                 /\ UNCHANGED <<retry, sleeps>>
            [] Classify(resp) = "non_ok" ->
                 /\ ret' = None
                 /\ running' = FALSE
                 /\ SetOutcome("non_ok")
                 /\ UNCHANGED <<retry, sleeps>>
            [] OTHER ->
                 \* request_type or raise_for_status() raised: except branch
                 /\ retry' = retry + 1
                 /\ sleeps' = Append(sleeps, Backoff(retry + 1))
                 /\ UNCHANGED <<running, ret, netlog>>
  /\ UNCHANGED <<cfg, ctl, locals, req>>

\* The loop condition fails: the function body ends, returning None.
run_request_exhausted ==
  /\ running
  /\ ~while_condition
  /\ ret' = None
  /\ running' = FALSE
  /\ SetOutcome("exhausted")
  /\ UNCHANGED <<cfg, ctl, locals, req, retry, sleeps, attempts, last>>

\* ---- single-call operations: validation, then one request ----
RepoReq(name) == [kind |-> "repo", method |-> "get", build |-> <<>>,
                  url |-> <<"git/repositories/">> \o name, params |-> <<>>]

get_repository_by_name(name, k) ==
  IF name = <<>> THEN Raise("ValueError")
  ELSE _run_get_request(RepoReq(name), k)

PrReq(rid, br) ==
  [kind |-> "pr", method |-> "get", build |-> <<>>,
   url |-> <<"git/repositories/">> \o rid \o <<"/pullrequests">>,
   params |-> [status |-> "active",
               sourceRefName |-> <<"refs/heads/">> \o br,
               top |-> 1]]

\* Variant: the branch reference is always prefixed.
BuildsReq_always_heads(rid, br, is_pr, n, build_number) ==
  [kind |-> "builds", method |-> "get", build |-> <<>>,
   url |-> <<"build/builds">>,
   params |-> [reasonFilter |-> IF is_pr THEN "pullRequest"
                                ELSE "batchedCI,manual,individualCI",
               statusFilter |-> IF is_pr THEN "active" ELSE "completed",
               resultFilter |-> IF is_pr THEN "" ELSE "succeeded,partiallySucceeded",
               top |-> n,
               branchName |-> <<"refs/heads/">> \o br,
               repositoryId |-> rid,
               repositoryType |-> "TfsGit",
               queryOrder |-> "finishTimeDescending",
               buildNumber |-> build_number \o <<"*">>]]

\* Variant: the default branch is not rejected.
get_pull_request_id_by_branch_master_allowed(rid, br, k) ==
  IF br = <<>> THEN Raise("ValueError")
  ELSE _run_get_request(PrReq(rid, br), k)

get_pull_request_id_by_branch(rid, br, k) ==
  IF br = <<>> \/ br = Master THEN Raise("ValueError")
  ELSE _run_get_request(PrReq(rid, br), k)

BuildsReq(rid, br, is_pr, n, build_number) ==
  [kind |-> "builds", method |-> "get", build |-> <<>>,
   url |-> <<"build/builds">>,
   params |-> [reasonFilter |-> IF is_pr THEN "pullRequest"
                                ELSE "batchedCI,manual,individualCI",
               statusFilter |-> IF is_pr THEN "active" ELSE "completed",
               resultFilter |-> IF is_pr THEN "" ELSE "succeeded,partiallySucceeded",
               top |-> n,
               branchName |-> IF is_pr THEN br ELSE <<"refs/heads/">> \o br,
               repositoryId |-> rid,
               repositoryType |-> "TfsGit",
               queryOrder |-> "finishTimeDescending",
               buildNumber |-> build_number \o <<"*">>]]

get_top_n_builds_for_repo_and_branch(rid, br, is_pr, n, build_number, k) ==
  IF rid = <<>> THEN Raise("ValueError")
  ELSE _run_get_request(BuildsReq(rid, br, is_pr, n, build_number), k)

ArtifactReq(build_id, artifact_name) ==
  [kind |-> "artifact", method |-> "get", build |-> build_id,
   url |-> <<"build/builds/">> \o build_id \o <<"/artifacts">>,
   params |-> [artifactName |-> artifact_name]]

get_artifact_details(build_id, artifact_name, k) ==
  IF build_id = <<>> THEN Raise("ValueError")
  ELSE IF artifact_name = <<>> THEN Raise("ValueError")
  ELSE _run_get_request(ArtifactReq(build_id, artifact_name), k)

BranchReq(rid, branch_name) ==
  [kind |-> "branch", method |-> "get", build |-> <<>>, repo |-> rid,
   url |-> <<"git/repositories/">> \o rid \o <<"/refs">>,
   params |-> [filter |-> <<"heads/">> \o branch_name]]

get_branch_by_name(rid, branch_name, k) ==
  IF branch_name = <<>> THEN Raise("ValueError")
  ELSE _run_get_request(BranchReq(rid, branch_name), k)

FileReq(rid, path_to_file, branch_name) ==
  [kind |-> "file", method |-> "get", build |-> <<>>,
   url |-> <<"git/repositories/">> \o rid \o <<"/items">>,
   params |-> [path |-> path_to_file, version |-> branch_name]]

read_file_from_repo(rid, path_to_file, branch_name, k) ==
  IF path_to_file = <<>> THEN Raise("ValueError")
  ELSE _run_get_request(FileReq(rid, path_to_file, branch_name), k)

DefinitionReq(name) ==
  [kind |-> "definition", method |-> "get", build |-> <<>>,
   url |-> <<"build/definitions">>, params |-> [name |-> name]]

get_definition_by_name(name, k) ==
  IF name = <<>> THEN Raise("ValueError")
  ELSE _run_get_request(DefinitionReq(name), k)

BuildByIdReq(definition_id) ==
  [kind |-> "build", method |-> "get", build |-> <<>>,
   url |-> <<"build/builds/">> \o definition_id, params |-> <<>>]

get_build_by_id(definition_id, k) ==
  _run_get_request(BuildByIdReq(definition_id), k)

\* ---- write operations: one POST or PATCH request each ----
WriteReq(kind, url, params, data) ==
  [kind |-> kind, method |-> "post", build |-> <<>>, url |-> url,
   params |-> params, data |-> data]

create_new_branch(rid, data, k) ==
  _run_post_request(
    WriteReq("pushes", <<"git/repositories/">> \o rid \o <<"/pushes">>, <<>>, data), k)

create_pr(rid, source_branch_name, new_branch_name, title, description, is_draft, k) ==
  _run_post_request(
    WriteReq("create_pr", <<"git/repositories/">> \o rid \o <<"/pullrequests">>, <<>>,
             [sourceRefName |-> source_branch_name,
              targetRefName |-> new_branch_name,
              title |-> title,
              description |-> description,
              isDraft |-> is_draft]), k)

\* Variant: the override is written into self.base_params itself.
abandon_pr_in_place(rid, pr_id, k) ==
  LET params == [base_params EXCEPT !["api-version"] = "6.1-preview.1"]
  IN /\ base_params' = params
     /\ _run_patch_request(
          WriteReq("abandon_pr",
                   <<"git/repositories/">> \o rid \o <<"/pullrequests/">> \o pr_id,
                   params, [status |-> "abandoned"]), k)

abandon_pr(rid, pr_id, k) ==
  LET params == [base_params EXCEPT !["api-version"] = "6.1-preview.1"]
  IN /\ base_params' = base_params
     /\ _run_patch_request(
          WriteReq("abandon_pr",
                   <<"git/repositories/">> \o rid \o <<"/pullrequests/">> \o pr_id,
                   params, [status |-> "abandoned"]), k)

delete_branch(rid, branch_name, branch_id, k) ==
  _run_post_request(
    WriteReq("delete_branch", <<"git/repositories/">> \o rid \o <<"/refs">>, <<>>,
             << [name |-> branch_name, oldObjectId |-> branch_id,
                 newObjectId |-> "0000000000000000000000000000000000000000"] >>), k)

queue_build(data, k) ==
  LET params == [base_params EXCEPT !["api-version"] = "6.0"]
  IN /\ base_params' = base_params
     /\ _run_post_request(WriteReq("queue_build", <<"build/builds">>, params, data), k)

\* Lines 64-67: what get_pull_request_id_by_branch makes of the response.
pr_outcome(res) ==
  IF res = None THEN [exc |-> "TypeError", val |-> None]
  ELSE IF res[1].value # <<>> THEN [exc |-> "", val |-> Some(res[1].value[1])]
  ELSE [exc |-> "", val |-> None]

\* Variant: an empty list of builds is returned as it is.
builds_outcome_unchecked(builds) ==
  IF builds = None THEN [exc |-> "AttributeError", val |-> <<>>]
  ELSE [exc |-> "", val |-> builds[1].value]

\* Lines 91-93: what get_top_n_builds_for_repo_and_branch makes of it.
builds_outcome(builds) ==
  IF builds = None THEN [exc |-> "AttributeError", val |-> <<>>]
  ELSE IF builds[1].value = <<>> THEN [exc |-> "Exception", val |-> <<>>]
  ELSE [exc |-> "", val |-> builds[1].value]

\* ---- get_artifact_for_repo_and_branch ----
get_artifact_for_repo_and_branch ==
  /\ pc = "idle"
  /\ Reads({"repoExists", "pr", "n", "arts"})
  /\ \E a \in ArtifactNames, r \in RepoNames, b \in Branches,
        p \in BOOLEAN, x \in Prefixes :
       /\ top' = "get_artifact_for_repo_and_branch"
       /\ args' = [artifact_name |-> a, repository |-> r, branch |-> b,
                   is_pr |-> p, build_version_prefix |-> x]
       /\ branch' = b
       /\ build_version_prefix' = x
       /\ get_repository_by_name(r, "repo")
  /\ UNCHANGED <<cfg, repo_id, top_builds, idx>>

\* Lines 37-44: after the repository lookup returned.
resolver_after_repo ==
  /\ top = "get_artifact_for_repo_and_branch"
  /\ pc = "repo" /\ ~running
  /\ IF ret = None
       THEN \* None['id']
            /\ Raise("TypeError")
            /\ UNCHANGED locals
       ELSE /\ repo_id' = ret[1].id
            /\ UNCHANGED <<branch, build_version_prefix, top_builds, idx>>
            /\ IF args.is_pr
                 THEN get_pull_request_id_by_branch(ret[1].id, branch, "pr")
                 ELSE get_top_n_builds_for_repo_and_branch(
                        ret[1].id, branch, args.is_pr, top_n_builds_to_check,
                        build_version_prefix, "builds")
  /\ UNCHANGED <<cfg, top, args>>

\* Lines 64-67 and 41-44: after the pull-request search returned.
resolver_after_pr ==
  /\ top = "get_artifact_for_repo_and_branch"
  /\ pc = "pr" /\ ~running
  /\ IF pr_outcome(ret).exc # ""
       THEN /\ Raise(pr_outcome(ret).exc)
            /\ UNCHANGED locals
       ELSE LET pr == pr_outcome(ret).val
            IN IF pr = None
                 THEN \* None['pullRequestId']
                      /\ Raise("TypeError")
                      /\ UNCHANGED locals
                 ELSE LET b == <<"refs/pull/">> \o pr[1].pullRequestId \o <<"/merge">>
                      IN /\ branch' = b
                         /\ build_version_prefix' = <<>>
                         /\ UNCHANGED <<repo_id, top_builds, idx>>
                         /\ get_top_n_builds_for_repo_and_branch(
                              repo_id, b, args.is_pr, top_n_builds_to_check,
                              <<>>, "builds")
  /\ UNCHANGED <<cfg, top, args>>

\* Lines 91-93 and 45-46: after the build search returned.
resolver_after_builds ==
  /\ top = "get_artifact_for_repo_and_branch"
  /\ pc = "builds" /\ ~running
  /\ IF builds_outcome(ret).exc # ""
       THEN /\ Raise(builds_outcome(ret).exc)
            /\ UNCHANGED locals
     ELSE IF builds_outcome(ret).val = <<>>
       THEN \* the loop body never runs
            /\ top_builds' = builds_outcome(ret).val
            /\ UNCHANGED <<repo_id, branch, build_version_prefix, idx>>
            /\ Return(<<None, None>>)
       ELSE /\ top_builds' = builds_outcome(ret).val
            /\ idx' = 1
            /\ UNCHANGED <<repo_id, branch, build_version_prefix>>
            /\ get_artifact_details(builds_outcome(ret).val[1].id,
                                    args.artifact_name, "artifact")
  /\ UNCHANGED <<cfg, top, args>>

\* Variant: running out of builds is reported as an error.
resolver_after_artifact_raises_at_end ==
  /\ top = "get_artifact_for_repo_and_branch"
  /\ pc = "artifact" /\ ~running
  /\ IF ret # None
       THEN /\ Return(<< Some(split(top_builds[idx].buildNumber, "-")[1]),
                         Some(ret[1].resource.downloadUrl) >>)
            /\ UNCHANGED locals
     ELSE IF idx < Len(top_builds)
       THEN /\ idx' = idx + 1
            /\ UNCHANGED <<repo_id, branch, build_version_prefix, top_builds>>
            /\ get_artifact_details(top_builds[idx + 1].id, args.artifact_name, "artifact")
       ELSE /\ Raise("Exception")
            /\ UNCHANGED locals
  /\ UNCHANGED <<cfg, top, args>>

\* Variant: the version is read from the newest build, not the matching one.
resolver_after_artifact_newest_version ==
  /\ top = "get_artifact_for_repo_and_branch"
  /\ pc = "artifact" /\ ~running
  /\ IF ret # None
       THEN /\ Return(<< Some(split(top_builds[1].buildNumber, "-")[1]),
                         Some(ret[1].resource.downloadUrl) >>)
            /\ UNCHANGED locals
     ELSE IF idx < Len(top_builds)
       THEN /\ idx' = idx + 1
            /\ UNCHANGED <<repo_id, branch, build_version_prefix, top_builds>>
            /\ get_artifact_details(top_builds[idx + 1].id, args.artifact_name, "artifact")
       ELSE /\ Return(<<None, None>>)
            /\ UNCHANGED locals
  /\ UNCHANGED <<cfg, top, args>>

\* Lines 45-49: one turn of the loop after get_artifact_details returned.
resolver_after_artifact ==
  /\ top = "get_artifact_for_repo_and_branch"
  /\ pc = "artifact" /\ ~running
  /\ IF ret # None
       THEN /\ Return(<< Some(split(top_builds[idx].buildNumber, "-")[1]),
                         Some(ret[1].resource.downloadUrl) >>)
            /\ UNCHANGED locals
     ELSE IF idx < Len(top_builds)
       THEN /\ idx' = idx + 1
            /\ UNCHANGED <<repo_id, branch, build_version_prefix, top_builds>>
            /\ get_artifact_details(top_builds[idx + 1].id, args.artifact_name, "artifact")
       ELSE /\ Return(<<None, None>>)
            /\ UNCHANGED locals
  /\ UNCHANGED <<cfg, top, args>>

\* ---- the single-call operations invoked directly by the caller ----
call_get_repository_by_name ==
  /\ pc = "idle"
  /\ Reads({"repoExists"})
  /\ \E name \in RepoNames :
       /\ top' = "get_repository_by_name"
       /\ args' = [name |-> name]
       /\ get_repository_by_name(name, "single")
  /\ UNCHANGED <<cfg, locals>>

call_get_pull_request_id_by_branch ==
  /\ pc = "idle"
  /\ Reads({"pr"})
  /\ \E b \in Branches :
       /\ top' = "get_pull_request_id_by_branch"
       /\ args' = [repo_id |-> RepoId, branch |-> b]
       /\ get_pull_request_id_by_branch(RepoId, b, "single")
  /\ UNCHANGED <<cfg, locals>>

call_get_top_n_builds_for_repo_and_branch ==
  /\ pc = "idle"
  /\ Reads({"n"})
  /\ \E rid \in {<<>>, RepoId}, b \in {Master, Feature}, n \in 1..MaxBuilds :
       /\ top' = "get_top_n_builds_for_repo_and_branch"
       /\ args' = [repo_id |-> rid, branch |-> b, n |-> n]
       /\ get_top_n_builds_for_repo_and_branch(rid, b, FALSE, n, <<>>, "single")
  /\ UNCHANGED <<cfg, locals>>

call_get_artifact_details ==
  /\ pc = "idle"
  /\ Reads({"n", "arts"})
  /\ \E bid \in {<<>>, BuildId(1)}, a \in ArtifactNames :
       /\ top' = "get_artifact_details"
       /\ args' = [build_id |-> bid, artifact_name |-> a]
       /\ get_artifact_details(bid, a, "single")
  /\ UNCHANGED <<cfg, locals>>

call_get_branch_by_name ==
  /\ pc = "idle"
  /\ Reads({"refs"})
  /\ \E r \in Repos, b \in Branches :
       /\ top' = "get_branch_by_name"
       /\ args' = [repo_id |-> r, branch_name |-> b]
       /\ get_branch_by_name(r, b, "single")
  /\ UNCHANGED <<cfg, locals>>

call_read_file_from_repo ==
  /\ pc = "idle"
  /\ Reads({})
  /\ \E path \in {<<>>, <<"a.txt">>} :
       /\ top' = "read_file_from_repo"
       /\ args' = [repo_id |-> RepoId, path_to_file |-> path]
       /\ read_file_from_repo(RepoId, path, <<>>, "single")
  /\ UNCHANGED <<cfg, locals>>

call_get_definition_by_name ==
  /\ pc = "idle"
  /\ Reads({})
  /\ \E name \in {<<>>, <<"def">>} :
       /\ top' = "get_definition_by_name"
       /\ args' = [name |-> name]
       /\ get_definition_by_name(name, "single")
  /\ UNCHANGED <<cfg, locals>>

call_get_build_by_id ==
  /\ pc = "idle"
  /\ Reads({})
  /\ top' = "get_build_by_id"
  /\ args' = [definition_id |-> <<"7">>]
  /\ get_build_by_id(<<"7">>, "single")
  /\ UNCHANGED <<cfg, locals>>

SomeData == [definition |-> <<"7">>]

call_create_new_branch ==
  /\ pc = "idle"
  /\ Reads({})
  /\ top' = "create_new_branch"
  /\ args' = [repo_id |-> RepoId, data |-> SomeData]
  /\ create_new_branch(RepoId, SomeData, "single")
  /\ UNCHANGED <<cfg, locals>>

call_create_pr ==
  /\ pc = "idle"
  /\ Reads({})
  /\ top' = "create_pr"
  /\ args' = [repo_id |-> RepoId, source_branch_name |-> Feature,
              new_branch_name |-> Master]
  /\ create_pr(RepoId, Feature, Master, <<"t">>, <<"d">>, "False", "single")
  /\ UNCHANGED <<cfg, locals>>

call_abandon_pr ==
  /\ pc = "idle"
  /\ Reads({})
  /\ top' = "abandon_pr"
  /\ args' = [repo_id |-> RepoId, pr_id |-> <<"42">>]
  /\ abandon_pr(RepoId, <<"42">>, "single")
  /\ UNCHANGED <<retries, service, overrode, dlv, locals>>

call_delete_branch ==
  /\ pc = "idle"
  /\ Reads({})
  /\ top' = "delete_branch"
  /\ args' = [repo_id |-> RepoId, branch_name |-> Feature]
  /\ delete_branch(RepoId, Feature, <<"oid">>, "single")
  /\ UNCHANGED <<cfg, locals>>

call_queue_build ==
  /\ pc = "idle"
  /\ Reads({})
  /\ top' = "queue_build"
  /\ args' = [data |-> SomeData]
  /\ queue_build(SomeData, "single")
  /\ UNCHANGED <<retries, service, overrode, dlv, locals>>

\* The statement after the request of a single-call operation.
single_return ==
  /\ pc = "single" /\ ~running
  /\ CASE top = "get_pull_request_id_by_branch" ->
            IF pr_outcome(ret).exc # "" THEN Raise(pr_outcome(ret).exc)
            ELSE Return(pr_outcome(ret).val)
       [] top = "get_top_n_builds_for_repo_and_branch" ->
            IF builds_outcome(ret).exc # "" THEN Raise(builds_outcome(ret).exc)
            ELSE Return(builds_outcome(ret).val)
       [] OTHER -> Return(ret)
  /\ UNCHANGED <<cfg, top, args, locals>>

\* ---- get_repos_contains_branch ----
RepoLists == UNION { [1..n -> Repos] : n \in 0..MaxRepos }

call_get_repos_contains_branch ==
  /\ pc = "idle"
  /\ Reads({"refs"})
  /\ \E l \in RepoLists, b \in {EmptyStr, Feature} :
       /\ top' = "get_repos_contains_branch"
       /\ args' = [relevant_repos |-> l, branch_name |-> b]
       /\ repos_with_branch_name' = <<>>
       /\ IF l = <<>>
            THEN /\ Return(<<>>)
                 /\ UNCHANGED ri
            ELSE /\ ri' = 1
                 /\ get_branch_by_name(l[1], b, "refs")
  /\ UNCHANGED <<retries, service, base_params, overrode, dl_retry, dl_res, locals>>

\* Variant: a count of zero is enough.
contains_branch_zero_counts(response) ==
  response # None /\ response[1].count >= 0

\* Line 186: the test on one response.
contains_branch(response) ==
  response # None /\ response[1].count > 0

\* Lines 184-188: one turn of the loop after get_branch_by_name returned.
repos_after_branch ==
  /\ pc = "refs" /\ ~running
  /\ LET found == IF contains_branch(ret)
                    THEN Append(repos_with_branch_name, args.relevant_repos[ri])
                    ELSE repos_with_branch_name
     IN /\ repos_with_branch_name' = found
        /\ IF ri < Len(args.relevant_repos)
             THEN /\ ri' = ri + 1
                  /\ get_branch_by_name(args.relevant_repos[ri + 1],
                                        args.branch_name, "refs")
             ELSE /\ Return(found)
                  /\ UNCHANGED ri
  /\ UNCHANGED <<retries, service, base_params, overrode, dl_retry, dl_res,
                 top, args, locals>>

\* ---- download_artifact ----
AZURE_GET_SUCCESS_CODE == OK
\* What requests.get(url, ...) can produce for the download.
DownloadResponses == {200, 204, 404, 500, 0}
\* bool(res) of a requests.Response: its `ok`, false for 4xx and 5xx.
ResponseIsTruthy(status) == ~(400 <= status /\ status < 600)

call_download_artifact ==
  /\ pc = "idle"
  /\ Reads({})
  /\ \E n \in 0..MaxRetries :
       /\ top' = "download_artifact"
       /\ args' = [retries |-> n]
  /\ dl_res' = NoResponse
  /\ dl_retry' = 0
  /\ pc' = "download"
  /\ UNCHANGED <<retries, service, base_params, overrode, result, locals, execv,
                 repos_with_branch_name, ri>>

\* Lines 155-164: one turn of `while retry < retries`.
download_attempt ==
  /\ pc = "download"
  /\ dl_retry < args.retries
  /\ dl_res # AZURE_GET_SUCCESS_CODE
  /\ dl_retry' = dl_retry + 1
  /\ \E status \in DownloadResponses :
       IF status = 0
         THEN \* requests.get raised: nothing catches it
              /\ Raise("ConnectionError")
              /\ UNCHANGED dl_res
         ELSE /\ dl_res' = status
              /\ UNCHANGED <<pc, result, execv>>
  /\ UNCHANGED <<retries, service, base_params, overrode, top, args, locals,
                 repos_with_branch_name, ri>>

\* Lines 165-171: after the loop.
download_finish ==
  /\ pc = "download"
  /\ (dl_retry >= args.retries \/ dl_res = AZURE_GET_SUCCESS_CODE)
  /\ IF dl_res = NoResponse \/ ~ResponseIsTruthy(dl_res)
       THEN Raise("TimeoutError")
     ELSE IF dl_res # AZURE_GET_SUCCESS_CODE
       THEN Raise("Exception")
       ELSE Return(<<"download_path", "artifact.zip">>)
  /\ UNCHANGED <<cfg, top, args, locals>>

\* The caller, having got the outcome of a call, makes ready for the next.
next_call ==
  /\ pc = "done"
  /\ overrode' = (overrode \/ top \in {"abandon_pr", "queue_build"})
  /\ top' = "none"
  /\ args' = <<>>
  /\ pc' = "idle"
  /\ result' = [kind |-> "running", err |-> "", val |-> <<>>]
  /\ repo_id' = <<>>
  /\ branch' = <<>>
  /\ build_version_prefix' = <<>>
  /\ top_builds' = <<>>
  /\ idx' = 0
  /\ running' = FALSE
  /\ req' = <<>>
  /\ retry' = 0
  /\ sleeps' = <<>>
  /\ attempts' = 0
  /\ last' = NoResponse
  /\ ret' = None
  /\ netlog' = <<>>
  /\ dl_retry' = 0
  /\ dl_res' = NoResponse
  /\ repos_with_branch_name' = <<>>
  /\ ri' = 0
  /\ UNCHANGED <<retries, service, base_params>>

Init ==
  /\ retries \in 0..MaxRetries
  /\ service \in Services
  /\ base_params = ("api-version" :> "5.1")
  /\ overrode = FALSE
  /\ top = "none"
  /\ args = <<>>
  /\ pc = "idle"
  /\ result = [kind |-> "running", err |-> "", val |-> <<>>]
  /\ repo_id = <<>>
  /\ branch = <<>>
  /\ build_version_prefix = <<>>
  /\ top_builds = <<>>
  /\ idx = 0
  /\ running = FALSE
  /\ req = <<>>
  /\ retry = 0
  /\ sleeps = <<>>
  /\ attempts = 0
  /\ last = NoResponse
  /\ ret = None
  /\ netlog = <<>>
  /\ dl_retry = 0
  /\ dl_res = NoResponse
  /\ repos_with_branch_name = <<>>
  /\ ri = 0

Next ==
  \/ get_artifact_for_repo_and_branch
  \/ resolver_after_repo
  \/ resolver_after_pr
  \/ resolver_after_builds
  \/ resolver_after_artifact
  \/ call_get_repository_by_name
  \/ call_get_pull_request_id_by_branch
  \/ call_get_top_n_builds_for_repo_and_branch
  \/ call_get_artifact_details
  \/ call_get_branch_by_name
  \/ call_read_file_from_repo
  \/ call_get_definition_by_name
  \/ call_get_build_by_id
  \/ call_create_new_branch
  \/ call_create_pr
  \/ call_abandon_pr
  \/ call_delete_branch
  \/ call_queue_build
  \/ single_return
  \/ call_get_repos_contains_branch
  \/ repos_after_branch
  \/ call_download_artifact
  \/ download_attempt
  \/ download_finish
  \/ next_call
  \/ run_request_attempt
  \/ run_request_exhausted

Spec == Init /\ [][Next]_vars

\* The calls are synchronous: a request that is running takes its next
\* step (the blocking network call and the sleep both return).
FairSpec ==
  Spec /\ WF_vars(run_request_attempt) /\ WF_vars(run_request_exhausted)

\* ---- vocabulary of the properties ----
Resolver == top = "get_artifact_for_repo_and_branch"
Finished == pc = "done"
Calls(kind) == SelectSeq(netlog, LAMBDA e : e.req.kind = kind)
Answered(kind) == \E i \in 1..Len(netlog) :
                    netlog[i].req.kind = kind /\ netlog[i].outcome = "payload"
SomeExhausted == \E i \in 1..Len(netlog) : netlog[i].outcome = "exhausted"
WindowHits == {i \in 1..Len(top_builds) : i \in service.arts}
FirstHit == CHOOSE i \in WindowHits : \A j \in WindowHits : i <= j
LastSuccess == last \in {200, 201}
LastNonOk == last \notin {NoResponse, 0, 200, 201} /\ last < 500
PassThrough == {"get_repository_by_name", "get_artifact_details",
                "get_branch_by_name", "read_file_from_repo",
                "get_definition_by_name", "get_build_by_id"}

\* C1: a resolver call that returns normally returns a pair with both the
\* version and the URL present, or (None, None); and once a non-empty window
\* of builds was returned in which no build has the artifact, the call ends
\* by returning (None, None), not by raising.
C1_PairOrNothing ==
  /\ (Resolver /\ result.kind = "return") =>
        \/ result.val = <<None, None>>
        \/ (result.val[1] # None /\ result.val[2] # None)
  /\ (Resolver /\ Finished /\ top_builds # <<>> /\ WindowHits = {}
        /\ args.artifact_name # <<>>) =>
        (result.kind = "return" /\ result.val = <<None, None>>)

C1_Witness ==
  /\ Resolver /\ Finished /\ Len(top_builds) >= 2 /\ WindowHits = {}
  /\ Len(Calls("artifact")) = Len(top_builds)
  /\ result.kind = "return" /\ result.val = <<None, None>>

\* C2: the artifact-existence calls are issued one per build in ranked order;
\* when the first build of the window that has the artifact is the k-th and
\* every artifact-existence call was answered by the service, the call
\* returns the k-th build's version and URL after exactly k such calls.
C2_EarlyExit ==
  /\ Resolver =>
       \A i \in 1..Len(Calls("artifact")) :
          Calls("artifact")[i].req.build = top_builds[i].id
  /\ (Resolver /\ Finished /\ WindowHits # {} /\ args.artifact_name # <<>>
        /\ ~SomeExhausted) =>
       /\ result.kind = "return"
       /\ result.val = << Some(split(BuildOf(FirstHit).buildNumber, "-")[1]),
                          Some(Url(FirstHit)) >>
       /\ Len(Calls("artifact")) = FirstHit

C2_Witness ==
  /\ Resolver /\ Finished /\ ~SomeExhausted
  /\ WindowHits # {} /\ FirstHit >= 2 /\ Len(top_builds) > FirstHit
  /\ result.kind = "return" /\ result.val[2] = Some(Url(FirstHit))
  /\ Len(Calls("artifact")) = FirstHit

\* C3: a pass-through call whose request used up all its attempts on
\* transport failures or server errors ends in a raised failure.
C3_ExhaustedRaises ==
  (top \in PassThrough /\ Finished /\ retries > 0 /\ SomeExhausted) =>
     result.kind = "raise"

\* C4: when a request succeeds after a run of failed attempts, the payload
\* of the success response is returned and the k-th failed attempt was
\* followed by a sleep of 2^(k+1) seconds: 4 then 8 for two failures.
C4_BackoffThenSuccess ==
  (~running /\ LastSuccess) =>
     /\ ret = Some(Definitive(req).body)
     /\ attempts = retry + 1
     /\ Len(sleeps) = retry
     /\ \A k \in 1..Len(sleeps) : sleeps[k] = 2 ^ (k + 1)
     /\ (retry = 2 => sleeps = <<4, 8>>)

C4_Witness ==
  ~running /\ LastSuccess /\ retry = 2 /\ sleeps = <<4, 8>> /\ ret # None

\* C5: a response that is neither a success nor a server error ends the
\* request at once with None: that step adds no sleep and raises nothing,
\* and afterwards no attempt and no sleep of that request follows (the
\* next thing sent, if any, is another request or belongs to another call).
C5_NonOkReturnsAtOnce ==
  [][ /\ (attempts' = attempts + 1 /\ LastNonOk') =>
           /\ ~running' /\ ret' = None
           /\ sleeps' = sleeps /\ retry' = retry
           /\ attempts' = attempts + 1
           /\ result' = result
      /\ LastNonOk =>
           /\ ~running
           /\ \/ (attempts' = attempts /\ sleeps' = sleeps /\ retry' = retry)
              \/ Len(netlog') = Len(netlog) + 1
              \/ (pc = "done" /\ pc' = "idle")
           /\ (top \in PassThrough /\ pc' = "done") =>
                 (result'.kind = "return" /\ result'.val = None)
    ]_vars

C5_Witness ==
  /\ top \in PassThrough /\ Finished /\ last = 404
  /\ attempts = 1 /\ sleeps = <<>>
  /\ result.kind = "return" /\ result.val = None

\* C6: in PR mode, when the pull-request search succeeded and holds no
\* active pull request, the call returns (None, None) and searches no build.
C6_NoActivePrIsNoResult ==
  (Resolver /\ Finished /\ args.is_pr /\ Answered("pr") /\ service.pr = <<>>) =>
     /\ result.kind = "return" /\ result.val = <<None, None>>
     /\ Calls("builds") = <<>>

\* C7: a build search answered with zero builds ends the call with the
\* no-builds error and without any artifact-existence call; a search
\* answered with at least one build never ends with that error, and when
\* none of them has the artifact the call returns (None, None).
C7_ZeroBuildsIsAnError ==
  (Resolver /\ Finished /\ Answered("builds")) =>
     IF service.n = 0
       THEN /\ result.kind = "raise" /\ result.err = "Exception"
            /\ Calls("artifact") = <<>>
       ELSE /\ result.err # "Exception"
            /\ (WindowHits = {} /\ args.artifact_name # <<>>) =>
                  (result.kind = "return" /\ result.val = <<None, None>>)

C7_Witness ==
  /\ Resolver /\ Finished /\ Answered("builds") /\ service.n = 0
  /\ result.kind = "raise" /\ result.err = "Exception"
  /\ Calls("artifact") = <<>>

\* C8: a single-call operation given an empty required argument (or, for
\* the pull-request lookup, the branch 'master') raises ValueError and hands
\* no request to the executor.
InvalidSingleCall ==
  \/ top = "get_repository_by_name" /\ args.name = <<>>
  \/ top = "get_pull_request_id_by_branch" /\ args.branch \in {<<>>, Master}
  \/ top = "get_top_n_builds_for_repo_and_branch" /\ args.repo_id = <<>>
  \/ top = "get_artifact_details"
       /\ (args.build_id = <<>> \/ args.artifact_name = <<>>)
  \/ top = "get_branch_by_name" /\ args.branch_name = <<>>
  \/ top = "read_file_from_repo" /\ args.path_to_file = <<>>
  \/ top = "get_definition_by_name" /\ args.name = <<>>

C8_EmptyArgumentRejected ==
  InvalidSingleCall =>
     /\ Finished
     /\ result.kind = "raise" /\ result.err = "ValueError"
     /\ netlog = <<>> /\ attempts = 0 /\ ~running

C8_Witness ==
  /\ top = "get_pull_request_id_by_branch" /\ args.branch = Master
  /\ Finished /\ result.err = "ValueError" /\ netlog = <<>>

\* C9: a resolver call with an empty artifact name, or in PR mode with an
\* empty branch or the branch 'master', has issued no request at any time.
C9_ValidationBeforeIO ==
  (Resolver /\ (\/ args.artifact_name = <<>>
                \/ (args.is_pr /\ args.branch \in {<<>>, Master}))) =>
     netlog = <<>>

\* C10: a resolver call in which some request used up its attempts on
\* transport failures or server errors ends in a raised failure.
C10_TransientIsNotAbsence ==
  (Resolver /\ Finished /\ retries > 0 /\ SomeExhausted) =>
     result.kind = "raise"

\* ---- further vocabulary ----
WriteOps == {"create_new_branch", "create_pr", "abandon_pr", "delete_branch",
             "queue_build"}
NotFoundClass == {"NotFoundError", "LookupError", "KeyError"}
Download == top = "download_artifact"

\* C11: in PR mode every build search is sent with the branch reference
\* refs/pull/P/merge of the active pull request P, the reason filter
\* pullRequest, the status filter active, an empty result filter and the
\* bare wildcard as buildNumber, whatever prefix the caller gave.
C11_PrModeSearch ==
  (Resolver /\ args.is_pr) =>
     \A i \in 1..Len(Calls("builds")) :
        LET p == Calls("builds")[i].req.params
        IN /\ service.pr # <<>>
           /\ p.branchName = <<"refs/pull/", service.pr[1], "/merge">>
           /\ p.reasonFilter = "pullRequest"
           /\ p.statusFilter = "active"
           /\ p.resultFilter = ""
           /\ p.buildNumber = <<"*">>

C11_Witness ==
  /\ Resolver /\ args.is_pr /\ args.branch = Feature
  /\ args.build_version_prefix = <<"1.">>
  /\ Len(Calls("builds")) = 1
  /\ Calls("builds")[1].req.params.branchName = <<"refs/pull/", "42", "/merge">>

\* C12: when the repository lookup is answered with a definitive
\* non-success status, the resolver ends with a not-found-class error and
\* has issued no other request.
C12_MissingRepositoryNotFound ==
  (Resolver /\ Finished /\ Len(netlog) >= 1 /\ netlog[1].outcome = "non_ok") =>
     /\ result.kind = "raise" /\ result.err \in NotFoundClass
     /\ Len(netlog) = 1

\* C13: a definitive 4xx answer to a write call is not retried and ends
\* the call in a raised failure, while the same answer to a read call makes
\* it return None.
C13_WriteRejectionRaises ==
  (Finished /\ LastNonOk /\ top \in WriteOps \cup PassThrough) =>
     /\ attempts = retry + 1
     /\ IF top \in WriteOps
          THEN result.kind = "raise"
          ELSE result.kind = "return" /\ result.val = None

\* C14: one request never makes more than `retries` attempts, and a
\* request that is running always comes to an end.
C14_BoundedAttempts ==
  /\ [](attempts <= retries)
  /\ (running ~> ~running)

C14_Witness ==
  /\ ~running /\ retries >= 2 /\ attempts = retries
  /\ netlog # <<>> /\ netlog[Len(netlog)].outcome = "exhausted"

\* C15: download_artifact makes at most `retries` GETs; when every GET
\* returned, it raises the timeout-class error if there never was a
\* response, a generic failure if the final response is not a success, and
\* returns the path only after a success response.
C15_DownloadOutcome ==
  (Download /\ Finished /\ result.err # "ConnectionError") =>
     /\ dl_retry <= args.retries
     /\ (dl_res = NoResponse => (result.kind = "raise" /\ result.err = "TimeoutError"))
     /\ (dl_res \notin {NoResponse, 200} =>
            (result.kind = "raise" /\ result.err = "Exception"))
     /\ (result.kind = "return" <=> dl_res = 200)

\* C16: no step changes self.base_params or self.retries, and every
\* request is sent with api-version 5.1 except those of abandon_pr
\* (6.1-preview.1) and queue_build (6.0), also after such a call.
C16_ConfigurationReadOnly ==
  [][ /\ base_params' = base_params
      /\ base_params'["api-version"] = "5.1"
      /\ retries' = retries
      /\ \A i \in 1..Len(netlog') :
           netlog'[i].req.params["api-version"] =
              CASE netlog'[i].req.kind = "abandon_pr" -> "6.1-preview.1"
                [] netlog'[i].req.kind = "queue_build" -> "6.0"
                [] OTHER -> "5.1"
    ]_vars

C16_Witness ==
  /\ overrode /\ top \notin {"none", "abandon_pr", "queue_build"}
  /\ netlog # <<>> /\ netlog[1].req.params["api-version"] = "5.1"

\* C17: get_repos_contains_branch with a branch name looks the branch up
\* once per listed repository, in list order, and does not raise; it
\* returns, in input order, the listed repositories whose lookup yielded a
\* result for a repository that has the branch, and leaves out those whose
\* lookup yielded no result or a zero count.
ReposCall == top = "get_repos_contains_branch"
C17_ReposWithBranch ==
  (ReposCall /\ args.branch_name # <<>>) =>
     /\ Len(netlog) <= Len(args.relevant_repos)
     /\ \A i \in 1..Len(netlog) :
          /\ netlog[i].req.kind = "branch"
          /\ netlog[i].req.repo = args.relevant_repos[i]
          /\ netlog[i].req.params.filter = <<"heads/">> \o args.branch_name
     /\ Finished =>
          /\ result.kind = "return"
          /\ Len(netlog) = Len(args.relevant_repos)
          /\ LET found == SelectSeq([i \in 1..Len(netlog) |-> i],
                                    LAMBDA i : /\ netlog[i].outcome = "payload"
                                               /\ HasBranch(args.relevant_repos[i], args.branch_name))
             IN result.val = [k \in 1..Len(found) |-> args.relevant_repos[found[k]]]

C17_Witness ==
  /\ ReposCall /\ Finished /\ ~SomeExhausted
  /\ Len(args.relevant_repos) = 2
  /\ args.branch_name = Feature
  /\ service.refs[args.relevant_repos[1]] = "none"
  /\ service.refs[args.relevant_repos[2]] = "has"
  /\ result.val = << args.relevant_repos[2] >>

\* C18: the version returned with a build's artifact is the part of that
\* build's number before its first '-': it holds no '-', it is a prefix of
\* the build number, and it is either the whole number or followed by '-'.
C18_VersionBeforeFirstDash ==
  (Resolver /\ result.kind = "return" /\ result.val[1] # None) =>
     LET bn == top_builds[idx].buildNumber
         v == result.val[1][1]
     IN /\ result.val[2] = Some(Url(idx))
        /\ \A i \in 1..Len(v) : v[i] # "-"
        /\ Len(v) <= Len(bn)
        /\ SubSeq(bn, 1, Len(v)) = v
        /\ (Len(v) = Len(bn) \/ bn[Len(v) + 1] = "-")
        /\ (bn = <<"1", ".", "2", "-", "a">> => v = <<"1", ".", "2">>)

C18_Witness ==
  /\ Resolver /\ result.kind = "return" /\ result.val[1] # None
  /\ top_builds[idx].buildNumber = <<"3", "-", "b", "-", "c">>
  /\ result.val[1] = Some(<<"3">>)

\* C19: the resolver's requests are a prefix of: the repository lookup,
\* the pull-request lookup if and only if is_pr, the build search with the
\* looked-up repository id, then one artifact call per build in the order
\* returned; and no request follows a matching artifact or a request that
\* used up its attempts.
ExpectedKinds ==
  <<"repo">> \o (IF args.is_pr THEN <<"pr">> ELSE <<>>) \o <<"builds">>
    \o [i \in 1..Len(top_builds) |-> "artifact"]
C19_RequestOrder ==
  Resolver =>
     /\ Len(netlog) <= Len(ExpectedKinds)
     /\ \A i \in 1..Len(netlog) : netlog[i].req.kind = ExpectedKinds[i]
     /\ \A i \in 1..Len(Calls("builds")) :
          Calls("builds")[i].req.params.repositoryId = RepoId
     /\ \A i \in 1..Len(Calls("artifact")) :
          Calls("artifact")[i].req.build = top_builds[i].id
     /\ \A i \in 1..(Len(netlog) - 1) :
          /\ ~(netlog[i].req.kind = "artifact" /\ netlog[i].outcome = "payload")
          /\ (retries > 0 => netlog[i].outcome # "exhausted")

\* C20: a request that has ended after n attempts has slept at most n - 1
\* times.
C20_SleepsOnlyBetweenAttempts ==
  (~running /\ attempts >= 1) => Len(sleeps) <= attempts - 1
====
